---- MODULE Spec2Model ----
(***************************************************************************)
(* The shopping cart of the Transgourmet server: CartApi over its          *)
(* cartStorage map, and getCart's enrichment loop over the catalog lookup  *)
(* fetchTransgourmetArticleDetails.                                        *)
(*                                                                         *)
(* JavaScript objects are modelled with their identity.  A positions array *)
(* is an entry of `arrays` (a sequence of line references), a CartPosition *)
(* object an entry of `lines`.  A Cart object has the single field         *)
(* positions and no reference to a Cart outlives the synchronous code that *)
(* obtained it, so cartStorage maps a username directly to the positions   *)
(* array of its Cart.  Objects that nothing references any more are        *)
(* reclaimed, and their ids reused, as the runtime's collector does.       *)
(***************************************************************************)
EXTENDS Integers, Sequences, FiniteSets, TLC

\* ------------------------------------------------------------------ bounds
MaxLines == 2
MaxQuantity == 3
MaxInputQuantity == 2
MaxBatch == 2
MaxCalls == 1

Users == {"alice", "bob"}
Articles == {"A", "B"}
\* The quantity arguments: positive integers (the tools' input schema).
QuantitiesWithZero == 0..MaxInputQuantity

Quantities == 1..MaxInputQuantity
Calls == 1..MaxCalls

NoCart == 0

\* The program's state: the store, the objects it reaches, and the getCart
\* calls in progress.
VARIABLES cartStorage, arrays, lines, calls

\* History variables, for stating properties; the program does not read them.
\* observe says which of them a run records: "store" records the last call
\* and the running sums of addToCart, "race" records what each suspended
\* getCart has missed, "submit" records the usernames whose cart was last
\* changed by submitCart, "off" records nothing.
VARIABLES observe, lastOp, added, race, submitted

vars ==
  <<cartStorage, arrays, lines, calls, observe, lastOp, added, race,
    submitted>>

\* The store and the objects reachable from it, as one value.
Heap == [cartStorage |-> cartStorage, arrays |-> arrays, lines |-> lines]

\* ------------------------------------------------------------- allocation
\* `[]`: a new empty array.  arrays and lines are sequences of objects, so
\* the reference of a new object is the next index.
NewArray(H) ==
  [H |-> [H EXCEPT !.arrays = Append(H.arrays, <<>>)],
   ref |-> Len(H.arrays) + 1]

\* `{ articleNumber, quantity }`: a new CartPosition object.
NewLine(H, articleNumber, quantity) ==
  [H |-> [H EXCEPT !.lines = Append(H.lines,
            [articleNumber |-> articleNumber, quantity |-> quantity])],
   ref |-> Len(H.lines) + 1]

\* Array.prototype.push: appends in place to the array object.
Push(H, array, line) ==
  [H EXCEPT !.arrays[array] = Append(H.arrays[array], line)]

\* ----------------------------------------------------------------- CartApi
\* getCartInternal: the stored cart, or a new empty one that is not stored.
getCartInternalStoring(H, username) ==
  IF H.cartStorage[username] # NoCart
  THEN [H |-> H, ref |-> H.cartStorage[username]]
  ELSE (LET n == NewArray(H)
        IN  [H |-> [n.H EXCEPT !.cartStorage[username] = n.ref],
             ref |-> n.ref])

getCartInternalShared(H, username) ==
  IF H.cartStorage["alice"] # NoCart
  THEN [H |-> H, ref |-> H.cartStorage["alice"]]
  ELSE NewArray(H)

getCartInternal(H, username) ==
  IF H.cartStorage[username] # NoCart
  THEN [H |-> H, ref |-> H.cartStorage[username]]
  ELSE NewArray(H)

RECURSIVE findIndexFrom(_, _, _, _)
findIndexFrom(H, array, articleNumber, i) ==
  IF i >= Len(H.arrays[array]) THEN -1
  ELSE IF H.lines[H.arrays[array][i + 1]].articleNumber = articleNumber THEN i
  ELSE findIndexFrom(H, array, articleNumber, i + 1)

\* cart.positions.findIndex(pos => pos.articleNumber === articleNumber):
\* the zero-based index of the first match, or -1.
findIndex(H, array, articleNumber) == findIndexFrom(H, array, articleNumber, 0)

\* cart.positions[i].quantity += quantity, on the line object itself.
addQuantityReplacing(H, array, i, quantity) ==
  [H EXCEPT !.lines[H.arrays[array][i + 1]].quantity = quantity]

addQuantity(H, array, i, quantity) ==
  [H EXCEPT !.lines[H.arrays[array][i + 1]].quantity = @ + quantity]

\* cart.positions[i].quantity = quantity
setQuantityAdding(H, array, i, quantity) ==
  [H EXCEPT !.lines[H.arrays[array][i + 1]].quantity = @ + quantity]

setQuantity(H, array, i, quantity) ==
  [H EXCEPT !.lines[H.arrays[array][i + 1]].quantity = quantity]

\* cart.positions.push({ articleNumber, quantity })
pushPositionUnshifting(H, array, articleNumber, quantity) ==
  (LET n == NewLine(H, articleNumber, quantity)
       IN  [n.H EXCEPT !.arrays[array] = <<n.ref>> \o @])

pushPosition(H, array, articleNumber, quantity) ==
  (LET n == NewLine(H, articleNumber, quantity)
       IN  Push(n.H, array, n.ref))

\* this.cartStorage.set(username, cart)
storageSet(H, username, array) ==
  [H EXCEPT !.cartStorage[username] = array]

\* The body of addToCart between getCartInternal and cartStorage.set.
addPositionAlwaysPushing(H, array, articleNumber, quantity) ==
  pushPosition(H, array, articleNumber, quantity)

addPosition(H, array, articleNumber, quantity) ==
  (LET existingPositionIndex == findIndex(H, array, articleNumber)
       IN
         IF existingPositionIndex >= 0
         THEN addQuantity(H, array, existingPositionIndex, quantity)
         ELSE pushPosition(H, array, articleNumber, quantity))

addToCart(H, username, articleNumber, quantity) ==
  (LET cart == getCartInternal(H, username)
       IN
         (LET H1 == addPosition(cart.H, cart.ref, articleNumber, quantity)
              IN  storageSet(H1, username, cart.ref)))

\* The body of the loop of addMultipleToCart, for one input position.
addMultipleStepReplacing(H, array, position) ==
  (LET existingPositionIndex == findIndex(H, array, position.articleNumber)
       IN
         IF existingPositionIndex >= 0
         THEN [H EXCEPT !.lines[H.arrays[array][existingPositionIndex + 1]]
                               .quantity = position.quantity]
         ELSE (LET n == NewLine(H, position.articleNumber, position.quantity)
                   IN  Push(n.H, array, n.ref)))

addMultipleStep(H, array, position) ==
  (LET existingPositionIndex == findIndex(H, array, position.articleNumber)
       IN
         IF existingPositionIndex >= 0
         THEN [H EXCEPT !.lines[H.arrays[array][existingPositionIndex + 1]]
                               .quantity = @ + position.quantity]
         ELSE (LET n == NewLine(H, position.articleNumber, position.quantity)
                   IN  Push(n.H, array, n.ref)))

\* The loop of addMultipleToCart, from input position i (one-based) on.
RECURSIVE addMultipleLoop(_, _, _, _)
addMultipleLoop(H, array, positions, i) ==
  IF i > Len(positions) THEN H
  ELSE (LET H1 == addMultipleStep(H, array, positions[i])
            IN  addMultipleLoop(H1, array, positions, i + 1))

addMultipleToCart(H, username, positions) ==
  (LET cart == getCartInternal(H, username)
       IN
         (LET H1 == addMultipleLoop(cart.H, cart.ref, positions, 1)
              IN  storageSet(H1, username, cart.ref)))

\* pos => pos.articleNumber !== articleNumber
keepPositionMatching(pos, articleNumber) == pos.articleNumber = articleNumber

keepPosition(pos, articleNumber) == pos.articleNumber # articleNumber

\* cart.positions.filter(...): a new array holding the same line objects.
filterPositions(H, array, articleNumber) ==
  (LET n == NewArray(H)
       IN
         [H |-> [n.H EXCEPT !.arrays[n.ref] =
                   SelectSeq(H.arrays[array],
                             LAMBDA l : keepPosition(H.lines[l],
                                                     articleNumber))],
          ref |-> n.ref])

removeFromCart(H, username, articleNumber) ==
  (LET cart == getCartInternal(H, username)
       IN
         (LET filtered == filterPositions(cart.H, cart.ref, articleNumber)
              IN  storageSet(filtered.H, username, filtered.ref)))

updateCartPosition(H, username, articleNumber, quantity) ==
  (LET cart == getCartInternal(H, username)
       IN
         (LET existingPositionIndex == findIndex(cart.H, cart.ref, articleNumber)
              IN
                (LET H1 == IF existingPositionIndex >= 0
                     THEN setQuantity(cart.H, cart.ref, existingPositionIndex,
                                      quantity)
                     ELSE pushPosition(cart.H, cart.ref, articleNumber,
                                       quantity)
                     IN  storageSet(H1, username, cart.ref))))

\* this.cartStorage.set(username, { positions: [] })
clearCartDeleting(H, username) == [H EXCEPT !.cartStorage[username] = NoCart]

clearCart(H, username) ==
  (LET n == NewArray(H) IN  storageSet(n.H, username, n.ref))

\* The reduce of getCartItemCount, from line i (one-based) on.
sumQuantitiesCounting(H, array, i) == Len(H.arrays[array]) - (i - 1)

RECURSIVE sumQuantities(_, _, _)
sumQuantities(H, array, i) ==
  IF i > Len(H.arrays[array]) THEN 0
  ELSE H.lines[H.arrays[array][i]].quantity + sumQuantities(H, array, i + 1)

\* cart.positions.reduce((total, pos) => total + pos.quantity, 0)
getCartItemCount(H, username) ==
  (LET cart == getCartInternal(H, username)
       IN  sumQuantities(cart.H, cart.ref, 1))

\* submitCart: randomUUID() makes the order id, which is logged and returned
\* to the caller and kept nowhere; the cart is cleared.
submitCartKeepingCart(H, username) == H

submitCart(H, username) == clearCart(H, username)

\* --------------------------------------------------------- catalog lookup
\* JavaScript values of a response payload's fields.
Undefined == [type |-> "undefined"]
Str(s) == [type |-> "string", value |-> s]
Num(n) == [type |-> "number", value |-> n]

\* What the transport does for one GET of the article details: fetch rejects,
\* or resolves with a status and a body; the body fails to parse (unparseable
\* or empty), parses to null, or parses to an object whose fields may be
\* missing.
Payloads ==
  {[description |-> Str("Milk"), normalPrice |-> Num(5)],
   [description |-> Undefined, normalPrice |-> Undefined]}

NoPayload == [description |-> Undefined, normalPrice |-> Undefined]

Responses ==
  {[fetch |-> "rejects", ok |-> FALSE, json |-> "none", data |-> NoPayload],
   [fetch |-> "resolves", ok |-> FALSE, json |-> "none", data |-> NoPayload],
   [fetch |-> "resolves", ok |-> TRUE, json |-> "rejects", data |-> NoPayload],
   [fetch |-> "resolves", ok |-> TRUE, json |-> "null", data |-> NoPayload]}
  \cup {[fetch |-> "resolves", ok |-> TRUE, json |-> "object", data |-> d] :
          d \in Payloads}

Thrown == [threw |-> TRUE, value |-> NoPayload]

\* fetchTransgourmetArticleDetails: throws (rethrows from its catch), or
\* returns the payload's description and normalPrice as they are.
fetchTransgourmetArticleDetails(articleNumber, response) ==
  IF response.fetch = "rejects" THEN Thrown
  ELSE IF ~response.ok THEN Thrown
  ELSE IF response.json = "rejects" THEN Thrown
  ELSE IF response.json = "null" THEN Thrown
  ELSE [threw |-> FALSE,
        value |-> [description |-> response.data.description,
                   normalPrice |-> response.data.normalPrice]]

\* ----------------------------------------------------------------- getCart
\* `https://webshop.transgourmet.ch/images/articles/120px/${articleNumber}.jpg`
imageUrl(articleNumber) ==
  <<"https://webshop.transgourmet.ch/images/articles/120px/", articleNumber,
    ".jpg">>

\* x || ""
orEmpty(x) == IF x = Undefined \/ x = Str("") THEN Str("") ELSE x

\* A getCart call: where it is, its locals (the username, the array it
\* iterates and the iterator's index, the line pos of the iteration, the
\* positions it has pushed, totalPositions), and the number of lookups it
\* has issued.
IdleCall ==
  [pc |-> "idle", username |-> "", array |-> 0, index |-> 0, pos |-> 0,
   positions |-> <<>>, totalPositions |-> 0, lookups |-> 0]

\* The reduce of getCart over the display lines, from line i (one-based) on.
sumDisplayCounting(positions, i) == Len(positions) - (i - 1)

RECURSIVE sumDisplay(_, _)
sumDisplay(positions, i) ==
  IF i > Len(positions) THEN 0
  ELSE positions[i].quantity + sumDisplay(positions, i + 1)

\* One turn of `for (const pos of cart.positions)`: the array iterator reads
\* the array's current length; with a next element the body starts and
\* suspends in the await, without one the function returns the CartDisplay.
getCartLoop(H, call) ==
  IF call.index < Len(H.arrays[call.array])
  THEN [call EXCEPT !.pc = "awaiting",
                    !.pos = H.arrays[call.array][call.index + 1],
                    !.index = @ + 1,
                    !.lookups = @ + 1]
  ELSE [call EXCEPT !.pc = "returned", !.pos = 0,
                    !.totalPositions = sumDisplay(call.positions, 1)]

\* getCart up to its first await (or its return, for an empty cart).
getCartSnapshot(H, username) ==
  (LET cart == getCartInternal(H, username)
       IN
         (LET n == NewArray(cart.H)
              IN
                (LET H1 == [n.H EXCEPT !.arrays[n.ref] = cart.H.arrays[cart.ref]]
                     IN
                       [H |-> H1,
                        call |-> getCartLoop(H1,
                                   [IdleCall EXCEPT !.username = username,
                                                    !.array = n.ref])])))

getCart(H, username) ==
  (LET cart == getCartInternal(H, username)
       IN
         [H |-> cart.H,
          call |-> getCartLoop(cart.H,
                     [IdleCall EXCEPT !.username = username,
                                      !.array = cart.ref])])

\* The line pushed in the try block.
fullPosition(pos, articleDetails) ==
  [articleNumber |-> pos.articleNumber,
   quantity |-> pos.quantity,
   description |-> orEmpty(articleDetails.description),
   price |-> articleDetails.normalPrice,
   imageUrl |-> imageUrl(pos.articleNumber)]

\* The line pushed in the catch block.
defaultPosition(pos) ==
  [articleNumber |-> pos.articleNumber,
   quantity |-> pos.quantity,
   description |-> Str(""),
   price |-> Num(0),
   imageUrl |-> imageUrl(pos.articleNumber)]

\* The loop body after the await, for the outcome of the lookup: pos is the
\* line object, read now.
resolvePositionWithoutCatch(H, call, response) ==
  (LET pos == H.lines[call.pos]
       IN
         (LET articleDetails == fetchTransgourmetArticleDetails(pos.articleNumber, response)
              IN
                IF articleDetails.threw
                THEN [call EXCEPT !.pc = "rejected"]
                ELSE [call EXCEPT !.positions =
                        Append(@, fullPosition(pos, articleDetails.value))]))

resolvePositionUnshifting(H, call, response) ==
  (LET pos == H.lines[call.pos]
       IN
         (LET articleDetails == fetchTransgourmetArticleDetails(pos.articleNumber, response)
              IN
                IF articleDetails.threw
                THEN [call EXCEPT !.positions =
                                    <<defaultPosition(pos)>> \o @]
                ELSE [call EXCEPT !.positions =
                        <<fullPosition(pos, articleDetails.value)>> \o @]))

resolvePositionRetrying(H, call, response) ==
  (LET pos == H.lines[call.pos]
       IN
         (LET articleDetails == fetchTransgourmetArticleDetails(pos.articleNumber, response)
              IN
                IF articleDetails.threw
                THEN [call EXCEPT !.index = @ - 1]
                ELSE [call EXCEPT !.positions =
                        Append(@, fullPosition(pos, articleDetails.value))]))

resolvePosition(H, call, response) ==
  (LET pos == H.lines[call.pos]
       IN
         (LET articleDetails == fetchTransgourmetArticleDetails(pos.articleNumber, response)
              IN
                IF articleDetails.threw
                THEN [call EXCEPT !.positions =
                                    Append(@, defaultPosition(pos))]
                ELSE [call EXCEPT !.positions =
                        Append(@, fullPosition(pos, articleDetails.value))]))

\* getCart from the settling of its pending lookup to its next await or its
\* return.
getCartResume(H, call, response) ==
  (LET pushed == resolvePosition(H, call, response)
       IN
         IF pushed.pc = "rejected" THEN pushed ELSE getCartLoop(H, pushed))

\* ------------------------------------------------------------- collection
\* Object references are not observable by the program, so after every step
\* the objects that the store or a running getCart still reaches are numbered
\* in the order in which they are reached from the roots, and the others are
\* dropped.
UserOrder == <<"alice", "bob">>

\* In the operators of this section a value that is used more than once is
\* bound by ranging over its singleton set, which evaluates it once however
\* the operator is evaluated.
RECURSIVE Distinct(_, _)
\* seq without the zeros and without repetitions, first occurrences kept.
Distinct(seq, seen) ==
  CHOOSE result \in
    {IF s = <<>> THEN <<>>
     ELSE IF Head(s) = 0 \/ Head(s) \in sn THEN Distinct(Tail(s), sn)
     ELSE <<Head(s)>> \o Distinct(Tail(s), sn \cup {Head(s)}) :
       s \in {seq}, sn \in {seen}} : TRUE

RECURSIVE Flatten(_, _)
Flatten(H, arraySeq) ==
  CHOOSE result \in
    {IF s = <<>> THEN <<>> ELSE H.arrays[Head(s)] \o Flatten(H, Tail(s)) :
       s \in {arraySeq}} : TRUE

IndexIn(seq, x) == IF x = 0 THEN 0 ELSE CHOOSE i \in 1..Len(seq) : seq[i] = x

Roots(H, cs) ==
  Distinct([i \in 1..Len(UserOrder) |-> H.cartStorage[UserOrder[i]]]
             \o [c \in 1..MaxCalls |-> cs[c].array], {})

\* The renumbering of H's live objects, and H and the calls renumbered.
Numbering(H, cs) ==
  CHOOSE result \in
    {[arrays |-> liveArrays,
      lines |-> Distinct(Flatten(H, liveArrays), {})] :
       liveArrays \in {Roots(H, cs)}} : TRUE

Collect(H, cs) ==
  CHOOSE result \in
    {[cartStorage |->
        [u \in Users |-> IndexIn(live.arrays, H.cartStorage[u])],
      arrays |->
        [a \in 1..Len(live.arrays) |->
           [i \in 1..Len(H.arrays[live.arrays[a]]) |->
              IndexIn(live.lines, H.arrays[live.arrays[a]][i])]],
      lines |-> [l \in 1..Len(live.lines) |-> H.lines[live.lines[l]]],
      calls |->
        [c \in Calls |->
           [cs[c] EXCEPT !.array = IndexIn(live.arrays, cs[c].array),
                         !.pos = IndexIn(live.lines, cs[c].pos)]]] :
       live \in {Numbering(H, cs)}} : TRUE

\* The model's bounds on a state: no quantity above MaxQuantity, and no more
\* than MaxLines line objects alive.
QuantitiesWithinBounds(H) ==
  \A l \in 1..Len(H.lines) : H.lines[l].quantity <= MaxQuantity

LinesWithinBounds(H) == Len(H.lines) <= MaxLines

\* ---------------------------------------------------------------- history
\* The stored cart of username as values: its lines in order.
CartLines(H, username) ==
  IF H.cartStorage[username] = NoCart THEN <<>>
  ELSE [i \in 1..Len(H.arrays[H.cartStorage[username]]) |->
          H.lines[H.arrays[H.cartStorage[username]][i]]]

HasLine(H, username, articleNumber) ==
  \E i \in 1..Len(CartLines(H, username)) :
    CartLines(H, username)[i].articleNumber = articleNumber

\* A call as lastOp records it: its name and arguments, and whether the
\* username's cart had a line for articleNumber when it was made.
Op(op, username, articleNumber, quantity, positions) ==
  [op |-> op, username |-> username, articleNumber |-> articleNumber,
   quantity |-> quantity, positions |-> positions,
   existed |-> username \in Users /\ HasLine(Heap, username, articleNumber)]

NoOp ==
  [op |-> "none", username |-> "", articleNumber |-> "", quantity |-> 0,
   positions |-> <<>>, existed |-> FALSE]

NoneAdded == [u \in Users |-> [a \in Articles |-> 0]]

NoRace ==
  [mutations |-> 0, before |-> <<>>, after |-> <<>>, afterSubmit |-> FALSE]

NoneSubmitted == [u \in Users |-> FALSE]

Mutations ==
  {"addToCart", "addMultipleToCart", "updateCartPosition", "removeFromCart",
   "clearCart", "submitCart"}

\* added[u][a] after op: the sum of the quantities of the addToCart(u, a, _)
\* calls made since a had no line in u's cart, or 0 once another call has
\* touched that line.
Added(op) ==
  IF op.op = "addToCart"
  THEN [added EXCEPT ![op.username][op.articleNumber] =
          IF ~HasLine(Heap, op.username, op.articleNumber) THEN op.quantity
          ELSE IF @ > 0 THEN @ + op.quantity
          ELSE 0]
  ELSE IF op.op \in {"removeFromCart", "updateCartPosition"}
  THEN [added EXCEPT ![op.username][op.articleNumber] = 0]
  ELSE IF op.op \in {"clearCart", "submitCart"}
  THEN [added EXCEPT ![op.username] = [a \in Articles |-> 0]]
  ELSE IF op.op = "addMultipleToCart"
  THEN [added EXCEPT ![op.username] =
          [a \in Articles |->
             IF \E i \in 1..Len(op.positions) :
                  op.positions[i].articleNumber = a
             THEN 0 ELSE @[a]]]
  ELSE added

\* race[c] after op has taken the store to H and the calls to cs: how many
\* mutating calls for its username the suspended getCart c has been through
\* (2 for more), and that username's cart before and after the only one.
Raced(op, H, cs) ==
  [c \in Calls |->
     IF cs[c].pc = "idle" THEN NoRace
     ELSE IF /\ op.op \in Mutations
             /\ calls[c].pc = "awaiting"
             /\ calls[c].username = op.username
     THEN IF race[c].mutations = 0
          THEN [race[c] EXCEPT !.mutations = 1,
                               !.before = CartLines(Heap, op.username),
                               !.after = CartLines(H, op.username)]
          ELSE [race[c] EXCEPT !.mutations = 2,
                               !.before = <<>>, !.after = <<>>]
     ELSE race[c]]

\* submitted[u] after op: whether submitCart(u) was the last mutating call
\* for u.
Submitted(op) ==
  IF op.op = "submitCart" THEN [submitted EXCEPT ![op.username] = TRUE]
  ELSE IF op.op \in Mutations THEN [submitted EXCEPT ![op.username] = FALSE]
  ELSE submitted

\* race[c].afterSubmit, set when getCart c is invoked: whether submitCart was
\* then the last mutating call for its username.
Started(cs) ==
  [c \in Calls |->
     IF cs[c].pc = "idle" THEN NoRace
     ELSE IF calls[c].pc = "idle"
     THEN [NoRace EXCEPT !.afterSubmit = submitted[cs[c].username]]
     ELSE race[c]]

\* --------------------------------------------------------------- the system
InitObserving(mode) ==
  /\ cartStorage = [u \in Users |-> NoCart]
  /\ arrays = <<>>
  /\ lines = <<>>
  /\ calls = [c \in Calls |-> IdleCall]
  /\ observe = mode
  /\ lastOp = NoOp
  /\ added = NoneAdded
  /\ race = [c \in Calls |-> NoRace]
  /\ submitted = NoneSubmitted

Init == InitObserving("off")

InitStore == InitObserving("store")

InitRace == InitObserving("race")

InitSubmit == InitObserving("submit")

\* The state after a step that leaves heap H and calls cs.
Becomes(H, cs, op) ==
  \E H1 \in {H}, cs1 \in {cs} :
    /\ QuantitiesWithinBounds(H1)
    /\ \E C \in {Collect(H1, cs1)} :
         /\ LinesWithinBounds(C)
         /\ cartStorage' = C.cartStorage
         /\ arrays' = C.arrays
         /\ lines' = C.lines
         /\ calls' = C.calls
         /\ observe' = observe
         /\ lastOp' = IF observe = "store" THEN op ELSE lastOp
         /\ added' = IF observe = "store" THEN Added(op) ELSE added
         /\ race' = IF observe = "race" THEN Raced(op, C, C.calls)
                    ELSE IF observe = "submit" THEN Started(C.calls)
                    ELSE race
         /\ submitted' = IF observe = "submit" THEN Submitted(op)
                         ELSE submitted

\* A finished getCart resolves its promise and the awaiting caller continues
\* in the same turn of the event loop, before any other request is served:
\* no other CartApi call runs between a return and its delivery.
Delivered == \A c \in Calls : calls[c].pc \notin {"returned", "rejected"}

\* The synchronous calls of CartApi: each runs to completion in one turn.
AddToCart(u, a, q) ==
  /\ Delivered
  /\ Becomes(addToCart(Heap, u, a, q), calls,
             Op("addToCart", u, a, q, <<>>))

CartPositions == [articleNumber : Articles, quantity : Quantities]

\* The positions argument: at least one position (the tools' input schema).
Batches == UNION {[1..n -> CartPositions] : n \in 1..MaxBatch}

AddMultipleToCart(u, ps) ==
  /\ Delivered
  /\ Becomes(addMultipleToCart(Heap, u, ps), calls,
             Op("addMultipleToCart", u, "", 0, ps))

RemoveFromCart(u, a) ==
  /\ Delivered
  /\ Becomes(removeFromCart(Heap, u, a), calls,
             Op("removeFromCart", u, a, 0, <<>>))

UpdateCartPosition(u, a, q) ==
  /\ Delivered
  /\ Becomes(updateCartPosition(Heap, u, a, q), calls,
             Op("updateCartPosition", u, a, q, <<>>))

\* lastOp keeps, as quantity, the item count of the cart that is replaced.
ClearCart(u) ==
  /\ Delivered
  /\ Becomes(clearCart(Heap, u), calls,
             Op("clearCart", u, "", getCartItemCount(Heap, u), <<>>))

SubmitCart(u) ==
  /\ Delivered
  /\ Becomes(submitCart(Heap, u), calls, Op("submitCart", u, "", 0, <<>>))

\* getCartItemCount returns the count and leaves what getCartInternal leaves.
GetCartItemCount(u) ==
  /\ Delivered
  /\ Becomes(getCartInternal(Heap, u).H, calls,
             Op("getCartItemCount", u, "", getCartItemCount(Heap, u), <<>>))

\* A caller invokes getCart.
GetCart(c, u) ==
  /\ Delivered
  /\ calls[c].pc = "idle"
  /\ LET g == getCart(Heap, u)
     IN  Becomes(g.H, [calls EXCEPT ![c] = g.call],
                 Op("getCart", u, "", 0, <<>>))

\* The pending lookup of a suspended getCart settles.
LookupSettles(c, response) ==
  /\ Delivered
  /\ calls[c].pc = "awaiting"
  /\ Becomes(Heap,
             [calls EXCEPT ![c] = getCartResume(Heap, calls[c], response)],
             Op("lookupSettles", calls[c].username, "", 0, <<>>))

\* The caller takes the result of a finished getCart.
GetCartDone(c) ==
  /\ calls[c].pc \in {"returned", "rejected"}
  /\ Becomes(Heap, [calls EXCEPT ![c] = IdleCall],
             Op("getCartDone", calls[c].username, "", 0, <<>>))

\* The synchronous operations of CartApi.
NextStore ==
  \/ \E u \in Users, a \in Articles, q \in Quantities : AddToCart(u, a, q)
  \/ \E u \in Users, ps \in Batches : AddMultipleToCart(u, ps)
  \/ \E u \in Users, a \in Articles : RemoveFromCart(u, a)
  \/ \E u \in Users, a \in Articles, q \in Quantities :
       UpdateCartPosition(u, a, q)
  \/ \E u \in Users : ClearCart(u)
  \/ \E u \in Users : SubmitCart(u)
  \/ \E u \in Users : GetCartItemCount(u)

\* getCart and the lookups it waits for.
NextGetCart ==
  \/ \E c \in Calls, u \in Users : GetCart(c, u)
  \/ \E c \in Calls, r \in Responses : LookupSettles(c, r)
  \/ \E c \in Calls : GetCartDone(c)

Next == NextStore \/ NextGetCart

\* The whole program: every CartApi call, in every interleaving.
Spec == Init /\ [][Next]_vars

\* The store alone: sequences of synchronous calls, no getCart running.
SpecStore == InitStore /\ [][NextStore]_vars

\* The whole program, recording what each suspended getCart has missed.
SpecRace == InitRace /\ [][Next]_vars

\* The whole program, recording the submitted carts.
SpecSubmit == InitSubmit /\ [][Next]_vars

\* The pending lookup of getCart c completes, by success or by failure.
LookupCompletes(c) == \E r \in Responses : LookupSettles(c, r)

\* The whole program with a transport under which every lookup that is
\* issued completes; it records what each suspended getCart has missed.
\* The caller of a finished getCart always continues (it is the next job of
\* the event loop), and a lookup that has settled is resumed however often
\* other calls finish in between: the event loop drops no job.
SpecLive ==
  /\ InitRace
  /\ [][Next]_vars
  /\ \A c \in Calls : WF_vars(GetCartDone(c)) /\ SF_vars(LookupCompletes(c))

\* ------------------------------------------------------------- properties
HeapNext == [cartStorage |-> cartStorage', arrays |-> arrays', lines |-> lines']

\* The store as values: for each username whether it is a key, and its lines.
StoreOf(H) ==
  [u \in Users |->
     [present |-> H.cartStorage[u] # NoCart, positions |-> CartLines(H, u)]]

\* The article number and quantity of each display line of getCart c.
Shown(c) ==
  [i \in 1..Len(calls[c].positions) |->
     [articleNumber |-> calls[c].positions[i].articleNumber,
      quantity |-> calls[c].positions[i].quantity]]

ArticleNumbers(seq) == [i \in 1..Len(seq) |-> seq[i].articleNumber]

\* C1: when a lookup settles, getCart appends one display line for the line
\* it was looking up and keeps the lines it had; if the lookup threw, that
\* line has price 0, description "" and the quantity stored in the line
\* object; if it did not, the line has the price and the description of the
\* lookup; and getCart goes on to its next lookup or returns, it never fails.
C1_FaultTolerance ==
  [][\A c \in Calls, r \in Responses :
       LookupSettles(c, r) =>
         LET pos == lines[calls[c].pos]
             shown == calls'[c].positions
             last == shown[Len(shown)]
             lookup == fetchTransgourmetArticleDetails(pos.articleNumber, r)
         IN  /\ calls'[c].pc \in {"awaiting", "returned"}
             /\ Len(shown) = Len(calls[c].positions) + 1
             /\ SubSeq(shown, 1, Len(shown) - 1) = calls[c].positions
             /\ last.articleNumber = pos.articleNumber
             /\ last.quantity = pos.quantity
             /\ lookup.threw =>
                  last.price = Num(0) /\ last.description = Str("")
             /\ ~lookup.threw =>
                  /\ last.price = r.data.normalPrice
                  /\ last.description =
                       IF r.data.description \in {Undefined, Str("")}
                       THEN Str("") ELSE r.data.description]_vars

\* A returned getCart with a degraded line for a failed lookup before a full
\* line for a lookup that succeeded.
C1_Witness ==
  \E c \in Calls :
    /\ calls[c].pc = "returned"
    /\ Len(calls[c].positions) = 2
    /\ calls[c].positions[1].price = Num(0)
    /\ calls[c].positions[1].description = Str("")
    /\ calls[c].positions[2].price = Num(5)
    /\ calls[c].positions[2].description = Str("Milk")

\* C2: a getCart that was suspended while exactly one mutating call for its
\* username ran returns the article numbers and quantities of that cart
\* either as they were before that call or as they were after it.
C2_NoPartialMutation ==
  \A c \in Calls :
    (calls[c].pc = "returned" /\ race[c].mutations = 1) =>
      Shown(c) \in {race[c].before, race[c].after}

\* C3: while only addToCart calls have touched the line of article a since u's
\* cart had none, the cart has exactly one line for a and its quantity is the
\* sum of the quantities added.
C3_Additivity ==
  \A u \in Users, a \in Articles :
    added[u][a] > 0 =>
      /\ Cardinality({i \in 1..Len(CartLines(Heap, u)) :
                        CartLines(Heap, u)[i].articleNumber = a}) = 1
      /\ \A i \in 1..Len(CartLines(Heap, u)) :
           CartLines(Heap, u)[i].articleNumber = a =>
             CartLines(Heap, u)[i].quantity = added[u][a]

\* addToCart of 2 on a line that an addToCart of 1 had created: quantity 3.
C3_Witness ==
  /\ lastOp = [op |-> "addToCart", username |-> "alice", articleNumber |-> "A",
               quantity |-> 2, positions |-> <<>>, existed |-> TRUE]
  /\ added["alice"]["A"] = 3
  /\ CartLines(Heap, "alice") = <<[articleNumber |-> "A", quantity |-> 3]>>

\* C4: every stored cart has at most one line per article number.
C4_UniqueLines ==
  \A u \in Users :
    \A i, j \in 1..Len(CartLines(Heap, u)) :
      CartLines(Heap, u)[i].articleNumber = CartLines(Heap, u)[j].articleNumber
        => i = j

\* A cart of two lines after a call that added to an article already in it.
C4_Witness ==
  /\ lastOp.op \in {"addToCart", "updateCartPosition"}
  /\ lastOp.existed
  /\ Len(CartLines(Heap, lastOp.username)) = 2

RECURSIVE addEach(_, _, _, _)
\* addToCart(username, p.articleNumber, p.quantity) for each p of positions
\* from the i-th on, in order.
addEach(H, username, positions, i) ==
  IF i > Len(positions) THEN H
  ELSE addEach(addToCart(H, username, positions[i].articleNumber,
                         positions[i].quantity),
               username, positions, i + 1)

C6_DisplayOrder ==
  \A c \in Calls :
    calls[c].pc \in {"awaiting", "returned"} =>
      /\ Len(calls[c].positions) <= Len(arrays[calls[c].array])
      /\ \A i \in 1..Len(calls[c].positions) :
           calls[c].positions[i].articleNumber =
             lines[arrays[calls[c].array][i]].articleNumber
      /\ calls[c].pc = "returned" =>
           Len(calls[c].positions) = Len(arrays[calls[c].array])
      /\ (calls[c].pc = "returned"
            /\ cartStorage[calls[c].username] = calls[c].array) =>
           ArticleNumbers(calls[c].positions) =
             ArticleNumbers(CartLines(Heap, calls[c].username))

\* A returned getCart of the stored cart [B, A]: the first lookup failed, the
\* second succeeded.
C6_Witness ==
  \E c \in Calls :
    /\ calls[c].pc = "returned"
    /\ cartStorage[calls[c].username] = calls[c].array
    /\ ArticleNumbers(CartLines(Heap, calls[c].username)) = <<"B", "A">>
    /\ ArticleNumbers(calls[c].positions) = <<"B", "A">>
    /\ calls[c].positions[1].price = Num(0)
    /\ calls[c].positions[2].price = Num(5)

\* C7: while submitCart(u) is the last mutating call for u, u is a key of the
\* store with an empty cart, getCartItemCount(u) is 0, and a getCart invoked
\* in that time has returned no position and total 0.
C7_SubmitClears ==
  /\ \A u \in Users :
       submitted[u] =>
         /\ cartStorage[u] # NoCart
         /\ CartLines(Heap, u) = <<>>
         /\ getCartItemCount(Heap, u) = 0
  /\ \A c \in Calls :
       race[c].afterSubmit =>
         /\ calls[c].pc = "returned"
         /\ calls[c].positions = <<>>
         /\ calls[c].totalPositions = 0

\* A getCart invoked after submitCart has returned, while the other user's
\* cart has lines.
C7_Witness ==
  \E c \in Calls :
    /\ race[c].afterSubmit
    /\ calls[c].pc = "returned"
    /\ submitted[calls[c].username]
    /\ \E u \in Users : CartLines(Heap, u) # <<>>

\* C9: updateCartPosition(u, a, q) sets the quantity of the line of a to q, or
\* appends the line a:q when the cart has none; the other lines keep their
\* quantities and every line its place, and the other carts are unchanged.
C9_UpdateReplaces ==
  [][lastOp'.op = "updateCartPosition" =>
       LET u == lastOp'.username
           a == lastOp'.articleNumber
           q == lastOp'.quantity
           old == CartLines(Heap, u)
       IN  /\ CartLines(HeapNext, u) =
                IF HasLine(Heap, u, a)
                THEN [i \in 1..Len(old) |->
                        IF old[i].articleNumber = a
                        THEN [articleNumber |-> a, quantity |-> q]
                        ELSE old[i]]
                ELSE Append(old, [articleNumber |-> a, quantity |-> q])
           /\ \A v \in Users \ {u} :
                CartLines(HeapNext, v) = CartLines(Heap, v)]_vars

\* updateCartPosition(alice, A, 1) on a cart that had A, beside B: A is first
\* and has quantity 1.
C9_Witness ==
  /\ lastOp.op = "updateCartPosition"
  /\ lastOp.existed
  /\ lastOp.articleNumber = "A"
  /\ lastOp.quantity = 1
  /\ ArticleNumbers(CartLines(Heap, lastOp.username)) = <<"A", "B">>
  /\ CartLines(Heap, lastOp.username)[1].quantity = 1

\* C10: after removeFromCart(u, a) the cart of u is its lines without the
\* line of a, the others in their order and with their quantities (so the
\* same lines when a had none); the other carts are unchanged; and a second
\* removeFromCart(u, a) leaves the store as the first left it.
C10_RemoveIsIdempotentFilter ==
  [][lastOp'.op = "removeFromCart" =>
       LET u == lastOp'.username
           a == lastOp'.articleNumber
           old == CartLines(Heap, u)
       IN  /\ CartLines(HeapNext, u) =
                SelectSeq(old, LAMBDA pos : pos.articleNumber # a)
           /\ ~HasLine(HeapNext, u, a)
           /\ ~HasLine(Heap, u, a) => CartLines(HeapNext, u) = old
           /\ \A v \in Users \ {u} :
                CartLines(HeapNext, v) = CartLines(Heap, v)
           /\ StoreOf(removeFromCart(HeapNext, u, a)) = StoreOf(HeapNext)]_vars

\* removeFromCart of an article the cart had, another line staying.
C10_Witness ==
  /\ lastOp.op = "removeFromCart"
  /\ lastOp.existed
  /\ Len(CartLines(Heap, lastOp.username)) = 1

RECURSIVE QuantitySum(_)
\* The sum of the quantity fields of a sequence of lines.
QuantitySum(seq) ==
  IF seq = <<>> THEN 0 ELSE Head(seq).quantity + QuantitySum(Tail(seq))

\* C11: in every state getCartItemCount(u) is the sum of the quantities of
\* the lines stored for u (0 for an empty cart and for a username that is
\* not a key), and no step of a getCart call (its invocation, the settling
\* of a lookup with any outcome, its return) changes it for any username.
C11_ItemCountIsSum ==
  /\ [](\A u \in Users :
          /\ getCartItemCount(Heap, u) = QuantitySum(CartLines(Heap, u))
          /\ CartLines(Heap, u) = <<>> => getCartItemCount(Heap, u) = 0)
  /\ [][NextGetCart =>
          \A u \in Users :
            getCartItemCount(HeapNext, u) = getCartItemCount(Heap, u)]_vars

\* A returned getCart whose first lookup failed, of a stored cart of two
\* lines with item count 3.
C11_Witness ==
  \E c \in Calls :
    /\ calls[c].pc = "returned"
    /\ Len(calls[c].positions) = 2
    /\ calls[c].positions[1].price = Num(0)
    /\ cartStorage[calls[c].username] = calls[c].array
    /\ Len(CartLines(Heap, calls[c].username)) = 2
    /\ getCartItemCount(Heap, calls[c].username) = 3

\* C12: the totalPositions of a returned CartDisplay is the sum of the
\* quantities of its display lines, the degraded ones included.
C12_TotalIsSum ==
  \A c \in Calls :
    calls[c].pc = "returned" =>
      calls[c].totalPositions = QuantitySum(calls[c].positions)

\* A CartDisplay of one degraded line of quantity 2 and one full line of
\* quantity 1: totalPositions is 3, not 2.
C12_Witness ==
  \E c \in Calls :
    /\ calls[c].pc = "returned"
    /\ Len(calls[c].positions) = 2
    /\ calls[c].positions[1].price = Num(0)
    /\ calls[c].positions[1].description = Str("")
    /\ calls[c].positions[1].quantity = 2
    /\ calls[c].positions[2].price = Num(5)
    /\ calls[c].positions[2].quantity = 1
    /\ calls[c].totalPositions = 3

\* C13: clearCart(u), from any cart and from no cart, leaves u a key of the
\* store with an empty positions array: getCartInternal(u) is that stored
\* cart, getCartItemCount(u) is 0, and getCart(u) returns at once with no
\* positions and totalPositions 0.
C13_ClearLeavesEmptyCart ==
  [][lastOp'.op = "clearCart" =>
       LET u == lastOp'.username
       IN  /\ cartStorage'[u] # NoCart
           /\ getCartInternal(HeapNext, u).ref = cartStorage'[u]
           /\ CartLines(HeapNext, u) = <<>>
           /\ getCartItemCount(HeapNext, u) = 0
           /\ getCart(HeapNext, u).call.pc = "returned"
           /\ getCart(HeapNext, u).call.positions = <<>>
           /\ getCart(HeapNext, u).call.totalPositions = 0]_vars

\* clearCart of a cart that had lines, item count 3.
C13_Witness ==
  /\ lastOp.op = "clearCart"
  /\ lastOp.quantity = 3
  /\ cartStorage[lastOp.username] # NoCart
  /\ CartLines(Heap, lastOp.username) = <<>>

\* C14: getCartInternal, getCartItemCount and every step of getCart (its
\* invocation, the settling of a lookup, its return) leave the store as it
\* was: the same keys, and for each key the same lines with the same
\* quantities in the same order; a username that is not a key stays none.
C14_ReadsLeaveStore ==
  /\ [](\A u \in Users :
          StoreOf(getCartInternal(Heap, u).H) = StoreOf(Heap))
  /\ [][((\E u \in Users : GetCartItemCount(u)) \/ NextGetCart) =>
          StoreOf(HeapNext) = StoreOf(Heap)]_vars

\* getCart has returned an empty CartDisplay for a username that is not a
\* key, and it is still not a key, while the other user's cart has lines.
C14_Witness ==
  \E c \in Calls :
    /\ calls[c].pc = "returned"
    /\ calls[c].positions = <<>>
    /\ cartStorage[calls[c].username] = NoCart
    /\ \E u \in Users : CartLines(Heap, u) # <<>>

RECURSIVE FirstAdded(_, _, _)
\* articleNumbers followed by the article numbers of positions, from the
\* i-th on, that are not yet among them, each once, in order.
FirstAdded(articleNumbers, positions, i) ==
  IF i > Len(positions) THEN articleNumbers
  ELSE FirstAdded(
         IF \E j \in 1..Len(articleNumbers) :
              articleNumbers[j] = positions[i].articleNumber
         THEN articleNumbers
         ELSE Append(articleNumbers, positions[i].articleNumber),
         positions, i + 1)

\* C15: addToCart and updateCartPosition for an article the cart has leave
\* the order of its lines as it was, and for one it has not they append the
\* article; addMultipleToCart appends the articles the cart has not, in the
\* order of their first occurrence in its input, behind the lines the cart
\* had; removeFromCart takes the article out and keeps the order of the rest.
C15_InsertionOrder ==
  [][LET u == lastOp'.username
         a == lastOp'.articleNumber
         old == ArticleNumbers(CartLines(Heap, u))
         new == ArticleNumbers(CartLines(HeapNext, u))
     IN  /\ lastOp'.op \in {"addToCart", "updateCartPosition"} =>
              new = IF lastOp'.existed THEN old ELSE Append(old, a)
         /\ lastOp'.op = "addMultipleToCart" =>
              new = FirstAdded(old, lastOp'.positions, 1)
         /\ lastOp'.op = "removeFromCart" =>
              new = SelectSeq(old, LAMBDA x : x # a)]_vars

\* addToCart for the first article of a cart of two lines: the order is
\* unchanged and the quantity has grown to 3.
C15_Witness ==
  /\ lastOp.op = "addToCart"
  /\ lastOp.existed
  /\ lastOp.articleNumber = "B"
  /\ ArticleNumbers(CartLines(Heap, lastOp.username)) = <<"B", "A">>
  /\ CartLines(Heap, lastOp.username)[1].quantity = 3

\* The lookup failures: a network error (fetch rejects), a response whose
\* status is not a success, and a malformed payload (a body that does not
\* parse, an empty body, a body without description or without normalPrice).
LookupFailure(response) ==
  \/ response.fetch = "rejects"
  \/ ~response.ok
  \/ response.json \in {"rejects", "null"}
  \/ response.data.description = Undefined
  \/ response.data.normalPrice = Undefined

\* C16: when the lookup of a line fails in one of these ways, the display
\* line getCart pushes for it is the degraded line: the line's articleNumber
\* and quantity, description "", price 0 and the image URL of the article.
C16_FailureGivesDegradedLine ==
  [][\A c \in Calls, r \in Responses :
       (LookupSettles(c, r) /\ LookupFailure(r)) =>
         calls'[c].positions[Len(calls'[c].positions)] =
           [articleNumber |-> lines[calls[c].pos].articleNumber,
            quantity |-> lines[calls[c].pos].quantity,
            description |-> Str(""),
            price |-> Num(0),
            imageUrl |-> imageUrl(lines[calls[c].pos].articleNumber)]]_vars

\* C17: with positive quantity arguments, every line of every stored cart
\* has a quantity above 0.
C17_PositiveQuantities ==
  \A u \in Users :
    \A i \in 1..Len(CartLines(Heap, u)) : CartLines(Heap, u)[i].quantity > 0

\* updateCartPosition has set the line of A to 1, beside a line that
\* addToCart calls have taken to 3.
C17_Witness ==
  /\ lastOp.op = "updateCartPosition"
  /\ lastOp.existed
  /\ lastOp.quantity = 1
  /\ added[lastOp.username]["B"] = 3
  /\ CartLines(Heap, lastOp.username) =
       <<[articleNumber |-> "B", quantity |-> 3],
         [articleNumber |-> "A", quantity |-> 1]>>

\* C18: a suspended getCart has issued one lookup more than it has display
\* lines, the pending one, and that one is for the line at the iterator's
\* index in the array it iterates; a returned getCart has issued as many
\* lookups as it has display lines.  When a lookup settles, with any outcome,
\* one display line is pushed, and either one lookup is issued, for the next
\* line of the array, or getCart returns at the end of the array.
C18_SequentialLookups ==
  /\ [](\A c \in Calls :
          /\ calls[c].pc = "awaiting" =>
               /\ calls[c].lookups = Len(calls[c].positions) + 1
               /\ calls[c].index = calls[c].lookups
               /\ calls[c].index <= Len(arrays[calls[c].array])
               /\ calls[c].pos = arrays[calls[c].array][calls[c].index]
          /\ calls[c].pc = "returned" =>
               /\ calls[c].lookups = Len(calls[c].positions)
               /\ calls[c].index = calls[c].lookups)
  /\ [][\A c \in Calls, r \in Responses :
          LookupSettles(c, r) =>
            /\ Len(calls'[c].positions) = Len(calls[c].positions) + 1
            /\ calls'[c].pc \in {"awaiting", "returned"}
            /\ calls'[c].pc = "awaiting" =>
                 /\ calls'[c].lookups = calls[c].lookups + 1
                 /\ calls'[c].index = calls[c].index + 1
            /\ calls'[c].pc = "returned" =>
                 /\ calls'[c].lookups = calls[c].lookups
                 /\ calls[c].index = Len(arrays[calls[c].array])]_vars

\* The lookup of the first line has failed and the lookup of the second line
\* is pending.
C18_Witness ==
  \E c \in Calls :
    /\ calls[c].pc = "awaiting"
    /\ calls[c].lookups = 2
    /\ Len(calls[c].positions) = 1
    /\ calls[c].positions[1].price = Num(0)
    /\ calls[c].positions[1].description = Str("")
    /\ lines[calls[c].pos].articleNumber # calls[c].positions[1].articleNumber

\* seq is the beginning of longer.
IsPrefix(seq, longer) ==
  Len(seq) <= Len(longer) /\ SubSeq(longer, 1, Len(seq)) = seq

\* The values of the lines of the array getCart c iterates, in the state
\* that H and cs describe.
Iterated(H, cs, c) ==
  [i \in 1..Len(H.arrays[cs[c].array]) |-> H.lines[H.arrays[cs[c].array][i]]]

\* C19: a returned getCart has one display line for each line of the array
\* it has iterated, in order.  When no mutating call for its username ran
\* while it was suspended its result is the stored cart; when exactly one
\* did, its article numbers are those of the cart after that call if the
\* call appended lines, and otherwise those of the cart before it, whether
\* the call changed quantities in place or replaced the array
\* (removeFromCart, clearCart, submitCart).  Each display line has the
\* quantity its line has when its lookup settles.  While getCart is in
\* progress no step takes a display line from its result or a line from the
\* array it iterates.
C19_LiveArray ==
  /\ [](\A c \in Calls :
          calls[c].pc = "returned" =>
            /\ ArticleNumbers(calls[c].positions) =
                 ArticleNumbers(Iterated(Heap, calls, c))
            /\ race[c].mutations = 0 =>
                 Shown(c) = CartLines(Heap, calls[c].username)
            /\ race[c].mutations = 1 =>
                 ArticleNumbers(Shown(c)) =
                   IF Len(race[c].after) > Len(race[c].before)
                   THEN ArticleNumbers(race[c].after)
                   ELSE ArticleNumbers(race[c].before))
  /\ [][\A c \in Calls :
          /\ \A r \in Responses :
               LookupSettles(c, r) =>
                 calls'[c].positions[Len(calls'[c].positions)].quantity =
                   lines[calls[c].pos].quantity
          /\ (calls[c].pc = "awaiting" /\ calls'[c].pc # "idle") =>
               /\ IsPrefix(calls[c].positions, calls'[c].positions)
               /\ IsPrefix(ArticleNumbers(Iterated(Heap, calls, c)),
                           ArticleNumbers(Iterated(HeapNext, calls', c)))]_vars

\* A returned getCart of two display lines, of a cart that had one line when
\* the only mutating call ran and two after it.
C19_Witness ==
  \E c \in Calls :
    /\ calls[c].pc = "returned"
    /\ race[c].mutations = 1
    /\ Len(race[c].before) = 1
    /\ Len(race[c].after) = 2
    /\ Len(calls[c].positions) = 2

\* A step of a CartApi operation invoked for username u.
OperationFor(u) ==
  \/ \E a \in Articles, q \in Quantities : AddToCart(u, a, q)
  \/ \E ps \in Batches : AddMultipleToCart(u, ps)
  \/ \E a \in Articles : RemoveFromCart(u, a)
  \/ \E a \in Articles, q \in Quantities : UpdateCartPosition(u, a, q)
  \/ ClearCart(u)
  \/ SubmitCart(u)
  \/ GetCartItemCount(u)
  \/ \E c \in Calls : GetCart(c, u)
  \/ \E c \in Calls, r \in Responses :
       calls[c].username = u /\ LookupSettles(c, r)
  \/ \E c \in Calls : calls[c].username = u /\ GetCartDone(c)

\* The line objects of an array.
LineObjects(array) == {arrays[array][i] : i \in 1..Len(arrays[array])}

\* C20: a step of an operation for username u leaves the stored cart of
\* every other username as it was (key, lines, quantities, order).  The
\* stored carts of two usernames share no array and no line object, and the
\* array a getCart for u iterates, from which its display lines come in
\* order, is not the stored array of another username and shares no line
\* object with it.
C20_OtherCartsUntouched ==
  /\ [](/\ \A u, v \in Users :
            (u # v /\ cartStorage[u] # NoCart /\ cartStorage[v] # NoCart) =>
              /\ cartStorage[u] # cartStorage[v]
              /\ LineObjects(cartStorage[u]) \cap LineObjects(cartStorage[v])
                   = {}
        /\ \A c \in Calls :
            calls[c].pc # "idle" =>
              /\ IsPrefix(ArticleNumbers(calls[c].positions),
                          ArticleNumbers(Iterated(Heap, calls, c)))
              /\ \A v \in Users \ {calls[c].username} :
                   cartStorage[v] # NoCart =>
                     /\ cartStorage[v] # calls[c].array
                     /\ LineObjects(cartStorage[v])
                          \cap LineObjects(calls[c].array) = {})
  /\ [][\A u \in Users :
          OperationFor(u) =>
            \A v \in Users \ {u} :
              StoreOf(HeapNext)[v] = StoreOf(Heap)[v]]_vars

\* A returned getCart with the one line A:1 of its username, replaced in the
\* store since, while the other username's cart has the line A:2.
C20_Witness ==
  \E c \in Calls :
    /\ calls[c].pc = "returned"
    /\ Shown(c) = <<[articleNumber |-> "A", quantity |-> 1]>>
    /\ cartStorage[calls[c].username] # calls[c].array
    /\ \E v \in Users \ {calls[c].username} :
         CartLines(Heap, v) = <<[articleNumber |-> "A", quantity |-> 2]>>

\* The locals of getCart c that its own code changes.
Progress(cs, c) ==
  [pc |-> cs[c].pc, index |-> cs[c].index, positions |-> cs[c].positions,
   lookups |-> cs[c].lookups, totalPositions |-> cs[c].totalPositions]

\* C21: when every lookup completes, a suspended getCart returns its
\* CartDisplay.  Nothing but the completion of its pending lookup moves a
\* suspended getCart, so without it the call stays suspended; and while it
\* is suspended the other operations can run, for its username and for the
\* others, as soon as no finished getCart is handing over its result:
\* clearCart, submitCart, removeFromCart and getCartItemCount always,
\* updateCartPosition and addToCart for a line the cart has (for a new line
\* too, up to the model's bounds).
C21_GetCartReturns ==
  /\ \A c \in Calls : (calls[c].pc = "awaiting") ~> (calls[c].pc = "returned")
  /\ [][\A c \in Calls :
          (calls[c].pc = "awaiting" /\ Progress(calls', c) # Progress(calls, c))
            => LookupCompletes(c)]_vars
  /\ [](\A c \in Calls :
          (calls[c].pc = "awaiting" /\ Delivered) =>
            \A u \in Users :
              /\ ENABLED ClearCart(u)
              /\ ENABLED SubmitCart(u)
              /\ ENABLED GetCartItemCount(u)
              /\ \A a \in Articles :
                   /\ ENABLED RemoveFromCart(u, a)
                   /\ HasLine(Heap, u, a) => ENABLED UpdateCartPosition(u, a, 1)
                   /\ (HasLine(Heap, u, a) /\ getCartItemCount(Heap, u) < MaxQuantity)
                        => ENABLED AddToCart(u, a, 1))

\* A getCart that has returned two display lines, the second for a line
\* that was appended to its cart while it was suspended.
C21_Witness ==
  \E c \in Calls :
    /\ calls[c].pc = "returned"
    /\ calls[c].lookups = 2
    /\ race[c].mutations = 1
    /\ Len(race[c].before) = 1
    /\ Len(race[c].after) = 2
    /\ ArticleNumbers(calls[c].positions) = ArticleNumbers(race[c].after)

====
